---- MODULE Spec2Model ----
(***************************************************************************)
(* Model of whisper_daemon.py: workers running daemon_loop against the     *)
(* table ims.meet_recording (claim with SELECT ... FOR UPDATE SKIP LOCKED, *)
(* result commit with update_result) and the WebVTT assembler.             *)
(***************************************************************************)
EXTENDS Integers, Sequences, FiniteSets, TLC

\* ------------------------------------------------------------------------
\* Bounds of the model
\* ------------------------------------------------------------------------
NumWorkers == 2
MaxJobId == 1

Workers == 1..NumWorkers
JobIds == 0..MaxJobId

\* ------------------------------------------------------------------------
\* Program constants: the status codes of ims.meet_recording.status
\* ------------------------------------------------------------------------
STATUS_PENDING == 2
STATUS_PROCESSING == 10
STATUS_DONE == 3
STATUS_FAILED == -1

Terminal == {STATUS_DONE, STATUS_FAILED}

\* Python None / SQL NULL and a present value, as sequences of length <= 1.
NULL == << >>
Some(x) == << x >>

\* Below, "CHOOSE r \in { F(v) : v \in {x} } : TRUE" is F(x) with x evaluated
\* once and named v.

\* ------------------------------------------------------------------------
\* Strings are sequences of one-character strings.
\* ------------------------------------------------------------------------
NL == "\n"
SP == " "

DigitChar(d) == <<"0", "1", "2", "3", "4", "5", "6", "7", "8", "9">>[d + 1]

RECURSIVE Decimal(_)
\* str(n) for n >= 0
Decimal(n) == IF n < 10 THEN << DigitChar(n) >>
              ELSE Decimal(n \div 10) \o << DigitChar(n % 10) >>

RECURSIVE Zeros(_)
Zeros(k) == IF k <= 0 THEN << >> ELSE << "0" >> \o Zeros(k - 1)

\* f"{n:0w}": zero padded to at least w characters, never truncated
ZeroPad(n, w) == Zeros(w - Len(Decimal(n))) \o Decimal(n)

\* ------------------------------------------------------------------------
\* A seconds value is an IEEE double t >= 0, kept exactly as
\* [whole |-> floor(t), frac |-> the binary digits of t - floor(t)].
\* ------------------------------------------------------------------------
RECURSIVE BitLen(_)
BitLen(n) == IF n = 0 THEN 0 ELSE 1 + BitLen(n \div 2)

\* The fraction bits are taken thirteen at a time, so that the products below
\* stay within 32-bit integers.
LimbBits == 13
LimbBase == 2 ^ LimbBits

BitAt(bits, n) == IF n <= Len(bits) THEN bits[n] ELSE 0

RECURSIVE LimbValue(_, _, _)
\* the number written by bits[from .. from + n - 1]
LimbValue(bits, from, n) ==
    IF n = 0 THEN 0
    ELSE 2 * LimbValue(bits, from, n - 1) + BitAt(bits, from + n - 1)

NumLimbs(bits) == (Len(bits) + LimbBits - 1) \div LimbBits

\* limb * 1000 plus the carry of the limbs after it
TimesStep(limb, y) ==
    LET x == limb * 1000 + y.int
    IN  [int |-> x \div LimbBase, rem |-> << x % LimbBase >> \o y.rem]

RECURSIVE TimesThousand(_, _)
\* 1000 * (limbs i.. of the fraction): [int, rem], int the carry out of limb i
\* and rem the limbs of the product's fraction
TimesThousand(bits, i) ==
    IF i > NumLimbs(bits) THEN [int |-> 0, rem |-> << >>]
    ELSE CHOOSE r \in
           { TimesStep(LimbValue(bits, (i - 1) * LimbBits + 1, LimbBits), y) :
               y \in { TimesThousand(bits, i + 1) } } : TRUE

\* bit n of the fraction whose limbs are rem
RemBit(rem, n) ==
    (rem[(n - 1) \div LimbBits + 1] \div (2 ^ (LimbBits - 1 - ((n - 1) % LimbBits)))) % 2

\* The double product (seconds % 1) * 1000 is the exact product p rounded to a
\* 53-bit significand (round half to even); int() then truncates. The rounded
\* product reaches the next integer exactly when every kept fraction bit and
\* the first dropped bit of the exact product are 1.
RoundedFloor(p) ==
    LET k == 54 - BitLen(p.int)
        carries == /\ Len(p.rem) * LimbBits >= k
                   /\ \A i \in 1..k : RemBit(p.rem, i) = 1
    IN  IF carries THEN p.int + 1 ELSE p.int

\* line 119: ms = int((seconds % 1) * 1000)
MillisOf(frac) ==
    CHOOSE r \in { RoundedFloor(p) : p \in { TimesThousand(frac, 1) } } : TRUE

\* lines 120-122
Render(s0, ms) ==
    LET h == s0 \div 3600
        m == (s0 % 3600) \div 60
        s == s0 % 60
    IN  ZeroPad(h, 2) \o <<":">> \o ZeroPad(m, 2) \o <<":">> \o ZeroPad(s, 2)
          \o <<".">> \o ZeroPad(ms, 3)

format_time(seconds) ==
    CHOOSE r \in { Render(seconds.whole, ms) : ms \in { MillisOf(seconds.frac) } } : TRUE

\* str.strip(): leading and trailing whitespace removed
IsSpace(c) == c \in {SP, NL, "\t", "\r"}

RECURSIVE LStrip(_)
LStrip(t) == IF t # << >> /\ IsSpace(Head(t)) THEN LStrip(Tail(t)) ELSE t

RECURSIVE RStrip(_)
RStrip(t) == IF t # << >> /\ IsSpace(t[Len(t)])
             THEN RStrip(SubSeq(t, 1, Len(t) - 1)) ELSE t

Strip(t) == RStrip(LStrip(t))

\* the text with its newlines left in
NewlineKept(t) == t

\* str.replace("\n", " "): every newline becomes one space
NewlineToSpace(t) == [i \in 1..Len(t) |-> IF t[i] = NL THEN SP ELSE t[i]]

ReplaceNewlines(t) == CHOOSE r \in { NewlineToSpace(v) : v \in {t} } : TRUE

RECURSIVE JoinFrom(_, _)
JoinFrom(lines, i) ==
    IF i > Len(lines) THEN << >>
    ELSE IF i = Len(lines) THEN lines[i]
    ELSE lines[i] \o << NL >> \o JoinFrom(lines, i + 1)

\* "\n".join(lines)
Join(lines) == CHOOSE r \in { JoinFrom(ls, 1) : ls \in {lines} } : TRUE

\* A segment is [start, end, text]; text is NULL when the transformation
\* returned a segment whose text is not a string (seg["text"].strip() raises).
WellFormed(seg) == seg.text # NULL

\* cues numbered from 0: f"{i}" for f"{i+1}"
CueLinesFromZero(i, seg) ==
    << Decimal(i - 1),
       format_time(seg.start) \o <<SP, "-", "-", ">", SP>> \o format_time(seg.end),
       ReplaceNewlines(Strip(seg.text[1])) \o << NL >> >>

CueLines(i, seg) ==
    << Decimal(i),
       format_time(seg.start) \o <<SP, "-", "-", ">", SP>> \o format_time(seg.end),
       ReplaceNewlines(Strip(seg.text[1])) \o << NL >> >>

RECURSIVE VttLines(_, _)
VttLines(segments, i) ==
    IF i > Len(segments) THEN << >>
    ELSE CueLines(i, segments[i]) \o VttLines(segments, i + 1)

HeaderLine == <<"W", "E", "B", "V", "T", "T", NL>>

convert_to_vtt(segments) == Join(<< HeaderLine >> \o VttLines(segments, 1))

\* convert_to_vtt raises when it reaches a segment it cannot render
ConvertRaises(segments) == \E i \in 1..Len(segments) : ~WellFormed(segments[i])

\* ------------------------------------------------------------------------
\* Inputs of the external collaborators
\* ------------------------------------------------------------------------
\* 0.0 and 1.2 as doubles
T_0_0 == [whole |-> 0, frac |-> << >>]
T_1_2 == [whole |-> 1,
          frac |-> <<0,0,1,1, 0,0,1,1, 0,0,1,1, 0,0,1,1, 0,0,1,1, 0,0,1,1, 0,0,1,1,
                     0,0,1,1, 0,0,1,1, 0,0,1,1, 0,0,1,1, 0,0,1,1, 0,0,1,1>>]

SegHiThere == [start |-> T_0_0, end |-> T_1_2,
               text |-> Some(<<"h", "i", NL, "t", "h", "e", "r", "e">>)]
SegNoText == [start |-> T_0_0, end |-> T_1_2, text |-> NULL]

\* What model.transcribe(...)["segments"] may return
SegmentInputs == { << >>, << SegHiThere >>, << SegNoText >> }

\* More doubles: 59.999, 59.9995, 3661.5 and 360000.25
T_59_999 == [whole |-> 59,
             frac |-> <<1,1,1,1, 1,1,1,1, 1,0,1,1, 1,1,1,0, 0,1,1,1, 0,1,1,0, 1,1,0,0,
                        1,0,0,0, 1,0,1,1, 0,1,0,0, 0,0,1,1, 1,0,1>>]
T_59_9995 == [whole |-> 59,
              frac |-> <<1,1,1,1, 1,1,1,1, 1,1,0,1, 1,1,1,1, 0,0,1,1, 1,0,1,1, 0,1,1,0,
                        0,1,0,0, 0,1,0,1, 1,0,1,0, 0,0,0,1, 1,1>>]
T_3661_5 == [whole |-> 3661, frac |-> << 1 >>]
T_360000_25 == [whole |-> 360000, frac |-> << 0, 1 >>]

\* the start and end times of the segments given to the assembler
TimePairs == { << T_0_0, T_1_2 >>, << T_59_999, T_59_9995 >>,
               << T_3661_5, T_360000_25 >> }

\* segment texts: one newline, two newlines in a row, newlines surrounded by
\* spaces with whitespace at both ends, whitespace only
TextInputs ==
    { << "h", "i", NL, "t", "h", "e", "r", "e" >>,
      << "a", NL, NL, "b" >>,
      << SP, "a", SP, NL, SP, "b", SP, NL >>,
      << SP, NL >> }

MaxSegments == 2

\* the sequences of at most MaxSegments segments the assembler is given
AssemblerSegments ==
    { [start |-> p[1], end |-> p[2], text |-> Some(x)] : p \in TimePairs, x \in TextInputs }
        \cup { SegNoText }

AssemblerInputs == UNION { [1..k -> AssemblerSegments] : k \in 0..MaxSegments }

\* traceback.format_exc(limit=5) of the exception being handled
format_exc(e) == << "Traceback (most recent call last):", e >>

\* the exceptions the collaborators, the store driver and print raise
JobError == "Exception"
StoreError == "OperationalError"
ConsoleError == "OSError"

\* ------------------------------------------------------------------------
\* State
\* ------------------------------------------------------------------------
VARIABLES
    tbl,            \* ims.meet_recording, committed rows: id -> [status, web_vtt, stacktrace]
    locks,          \* row locks: id -> set of workers whose open transaction locks the row
    txn,            \* per worker: NULL or Some([id, row]), the uncommitted write of its open transaction
    pc,             \* per worker: the statement of daemon_loop it is about to run
    row,            \* per worker: cur.fetchone() of get_next_target
    rec_id,         \* per worker: rec_id of daemon_loop
    segments,       \* per worker: segments of process_recording
    vtt,            \* per worker: vtt of daemon_loop
    exc,            \* per worker: the exception being handled
    traceback_str,  \* per worker: traceback_str of daemon_loop
    call,           \* per worker: the arguments of the update_result call in progress
    owned,          \* history: per worker, the jobs it moved to processing and has not committed
    stages          \* history: per worker, the stages completed for the job in hand

vars == << tbl, locks, txn, pc, row, rec_id, segments, vtt, exc, traceback_str,
           call, owned, stages >>

NewRow(st, w, e) == [status |-> st, web_vtt |-> w, stacktrace |-> e]

\* Rows the table can hold when the workers start: pending rows produced
\* externally, and rows left by earlier runs.
InitRows ==
    { NewRow(STATUS_PENDING, NULL, NULL),
      NewRow(STATUS_PROCESSING, NULL, NULL),
      NewRow(STATUS_DONE, Some(convert_to_vtt(<< >>)), NULL),
      NewRow(STATUS_FAILED, NULL, Some(format_exc(JobError))) }

\* no transaction is open and every worker is about to make its first claim
Started ==
    /\ locks = [j \in JobIds |-> {}]
    /\ txn = [w \in Workers |-> NULL]
    /\ pc = [w \in Workers |-> "get_next_target"]
    /\ row = [w \in Workers |-> NULL]
    /\ rec_id = [w \in Workers |-> NULL]
    /\ segments = [w \in Workers |-> NULL]
    /\ vtt = [w \in Workers |-> NULL]
    /\ exc = [w \in Workers |-> NULL]
    /\ traceback_str = [w \in Workers |-> NULL]
    /\ call = [w \in Workers |-> NULL]
    /\ owned = [w \in Workers |-> {}]
    /\ stages = [w \in Workers |-> << >>]

Init == tbl \in [JobIds -> InitRows] /\ Started

\* the worker that runs the assembler alone
Assembler == CHOOSE w \in Workers : TRUE

\* A worker is about to assemble the document of a job it claimed, for every
\* segment sequence the transcription may have returned; the other workers
\* take no step.
InitAssemble ==
    /\ tbl = [j \in JobIds |-> IF j = MaxJobId THEN NewRow(STATUS_PROCESSING, NULL, NULL)
                                ELSE NewRow(STATUS_PENDING, NULL, NULL)]
    /\ locks = [j \in JobIds |-> {}]
    /\ txn = [w \in Workers |-> NULL]
    /\ pc = [w \in Workers |-> IF w = Assembler THEN "convert" ELSE "get_next_target"]
    /\ row = [w \in Workers |-> NULL]
    /\ rec_id = [w \in Workers |-> IF w = Assembler THEN Some(MaxJobId) ELSE NULL]
    /\ \E s \in AssemblerInputs :
          segments = [w \in Workers |-> IF w = Assembler THEN Some(s) ELSE NULL]
    /\ vtt = [w \in Workers |-> NULL]
    /\ exc = [w \in Workers |-> NULL]
    /\ traceback_str = [w \in Workers |-> NULL]
    /\ call = [w \in Workers |-> NULL]
    /\ owned = [w \in Workers |-> IF w = Assembler THEN {MaxJobId} ELSE {}]
    /\ stages = [w \in Workers |-> IF w = Assembler THEN << "fetch", "transform" >>
                                    ELSE << >>]

\* the diagnostics the failure commit is called with
Diagnostics == { format_exc(JobError), format_exc(StoreError), format_exc(ConsoleError) }

\* the worker that makes the two failure commits
Committer == CHOOSE w \in Workers : TRUE

\* update_result(j, -1, error=d1) is about to be called, for any row j of any
\* table and any diagnostic d1; the other workers take no step.
InitFailTwice ==
    /\ tbl \in [JobIds -> InitRows]
    /\ locks = [j \in JobIds |-> {}]
    /\ txn = [w \in Workers |-> NULL]
    /\ pc = [w \in Workers |-> IF w = Committer THEN "commit_failure"
                                ELSE "get_next_target"]
    /\ row = [w \in Workers |-> NULL]
    /\ \E j \in JobIds :
          rec_id = [w \in Workers |-> IF w = Committer THEN Some(j) ELSE NULL]
    /\ segments = [w \in Workers |-> NULL]
    /\ vtt = [w \in Workers |-> NULL]
    /\ exc = [w \in Workers |-> NULL]
    /\ \E d \in Diagnostics :
          traceback_str = [w \in Workers |-> IF w = Committer THEN Some(d) ELSE NULL]
    /\ call = [w \in Workers |-> NULL]
    /\ owned = [w \in Workers |-> {}]
    /\ stages = [w \in Workers |-> << >>]

\* the first failure commit has returned: update_result(j, -1, error=d2) is
\* called for the same row, with any diagnostic d2
FailAgain(w) ==
    /\ pc[w] = "log_failed"
    /\ stages[w] = << >>
    /\ stages' = [stages EXCEPT ![w] = << "failed" >>]
    /\ \E d \in Diagnostics : traceback_str' = [traceback_str EXCEPT ![w] = Some(d)]
    /\ pc' = [pc EXCEPT ![w] = "commit_failure"]
    /\ UNCHANGED << tbl, locks, txn, row, rec_id, segments, vtt, exc, call, owned >>

\* every row is pending when the workers start
InitAllPending ==
    /\ tbl = [j \in JobIds |-> NewRow(STATUS_PENDING, NULL, NULL)]
    /\ Started

\* the same, with exactly one pending row in the table
InitOnePending ==
    /\ tbl \in { t \in [JobIds -> InitRows] :
                    Cardinality({ j \in JobIds : t[j].status = STATUS_PENDING }) = 1 }
    /\ Started

\* ------------------------------------------------------------------------
\* The store: one transaction per connection, row locks, commit, rollback
\* ------------------------------------------------------------------------
\* FOR UPDATE without SKIP LOCKED: locked pending rows are candidates too
CandidatesNoSkip == { j \in JobIds : tbl[j].status = STATUS_PENDING }

\* a WHERE clause that leaves finished rows in: status <> 10
CandidatesNotProcessing ==
    { j \in JobIds : tbl[j].status # STATUS_PROCESSING /\ locks[j] = {} }

\* a SELECT without the WHERE clause: any unlocked row
CandidatesAnyStatus == { j \in JobIds : locks[j] = {} }

\* The rows "SELECT id ... WHERE status = 2 FOR UPDATE SKIP LOCKED" can
\* return: pending in the committed table and not locked by another transaction.
Candidates == { j \in JobIds : tbl[j].status = STATUS_PENDING /\ locks[j] = {} }

\* a plain SELECT, which takes no row lock
SelectWithoutLock(j, w) == locks

\* FOR UPDATE: the transaction of w takes the row lock of j
LockRow(j, w) == [locks EXCEPT ![j] = @ \cup {w}]

\* A row lock is granted only while no other transaction holds it.
LockFree(j, w) == locks[j] \subseteq {w}

\* "UPDATE ... SET status = 10 WHERE id = %s" inside the open transaction:
\* the write stays private to the transaction until it commits.
ClaimWrite(j) == Some([id |-> j, row |-> [tbl[j] EXCEPT !.status = STATUS_PROCESSING]])

\* an UPDATE that keeps a diagnostic already stored: COALESCE(stacktrace, %s)
ResultWriteFirstWins(c) ==
    Some([id |-> c.rec_id,
          row |-> NewRow(c.status, c.webvtt,
                         IF tbl[c.rec_id].stacktrace # NULL
                         THEN tbl[c.rec_id].stacktrace ELSE c.error)])

\* an UPDATE that writes only the columns the call gave a value for
ResultWriteGivenOnly(c) ==
    Some([id |-> c.rec_id,
          row |-> NewRow(c.status,
                         IF c.webvtt = NULL THEN tbl[c.rec_id].web_vtt ELSE c.webvtt,
                         IF c.error = NULL THEN tbl[c.rec_id].stacktrace ELSE c.error)])

\* "UPDATE ... SET status = %s, web_vtt = %s, stacktrace = %s WHERE id = %s"
ResultWrite(c) == Some([id |-> c.rec_id, row |-> NewRow(c.status, c.webvtt, c.error)])

\* conn.commit(): the write becomes the committed row
Committed(w) == IF txn[w] = NULL THEN tbl
                ELSE [tbl EXCEPT ![txn[w][1].id] = txn[w][1].row]

\* a transaction whose end leaves its row locks behind
LocksKept(w) == locks

\* the end of a transaction (commit or rollback) releases its row locks
Released(w) == [j \in JobIds |-> locks[j] \ {w}]

\* "if not rec_id": None and 0 are both false
Falsy(v) == v = NULL \/ v = Some(0)

\* A local that is never read again before it is reassigned is dropped.
Drop(f, w) == [f EXCEPT ![w] = NULL]

\* ------------------------------------------------------------------------
\* get_next_target
\* ------------------------------------------------------------------------
\* lines 64-74: connect, SELECT ... FOR UPDATE SKIP LOCKED LIMIT 1, fetchone()
GNT_Select(w) ==
    /\ pc[w] = "get_next_target"
    /\ IF Candidates = {}
       THEN /\ row' = [row EXCEPT ![w] = NULL]
            /\ pc' = [pc EXCEPT ![w] = "commit_none"]
            /\ UNCHANGED locks
       ELSE \E j \in Candidates :
            /\ LockFree(j, w)
            /\ locks' = LockRow(j, w)
            /\ row' = [row EXCEPT ![w] = Some(j)]
            /\ pc' = [pc EXCEPT ![w] = "update"]
    /\ UNCHANGED << tbl, txn, rec_id, segments, vtt, exc, traceback_str, call,
                    owned, stages >>

\* lines 75-77: UPDATE ... SET status = 10 WHERE id = rec_id
GNT_Update(w) ==
    /\ pc[w] = "update"
    /\ txn' = [txn EXCEPT ![w] = ClaimWrite(row[w][1])]
    /\ pc' = [pc EXCEPT ![w] = "commit_claim"]
    /\ UNCHANGED << tbl, locks, row, rec_id, segments, vtt, exc, traceback_str,
                    call, owned, stages >>

\* lines 78-79 and 145: conn.commit(); return rec_id
GNT_Commit(w) ==
    /\ pc[w] = "commit_claim"
    /\ tbl' = Committed(w)
    /\ locks' = Released(w)
    /\ txn' = [txn EXCEPT ![w] = NULL]
    /\ rec_id' = [rec_id EXCEPT ![w] = row[w]]
    /\ row' = Drop(row, w)
    /\ owned' = [owned EXCEPT ![w] = @ \cup {row[w][1]}]
    /\ pc' = [pc EXCEPT ![w] = "check"]
    /\ UNCHANGED << segments, vtt, exc, traceback_str, call, stages >>

\* lines 80-81 and 145: conn.commit(); return None
GNT_NoRow(w) ==
    /\ pc[w] = "commit_none"
    /\ rec_id' = [rec_id EXCEPT ![w] = NULL]
    /\ pc' = [pc EXCEPT ![w] = "check"]
    /\ UNCHANGED << tbl, locks, txn, row, segments, vtt, exc, traceback_str,
                    call, owned, stages >>

\* ------------------------------------------------------------------------
\* daemon_loop and process_recording
\* ------------------------------------------------------------------------
\* lines 146-148: if not rec_id: sleep, continue
Check(w) ==
    /\ pc[w] = "check"
    /\ IF Falsy(rec_id[w])
       THEN /\ pc' = [pc EXCEPT ![w] = "get_next_target"]
            /\ rec_id' = Drop(rec_id, w)
       ELSE /\ pc' = [pc EXCEPT ![w] = "log_processing"]
            /\ UNCHANGED rec_id
    /\ UNCHANGED << tbl, locks, txn, row, segments, vtt, exc, traceback_str,
                    call, owned, stages >>

\* lines 151-152, 127-129: print, enter process_recording
LogProcessing(w) ==
    /\ pc[w] = "log_processing"
    /\ pc' = [pc EXCEPT ![w] = "download"]
    /\ UNCHANGED << tbl, locks, txn, row, rec_id, segments, vtt, exc,
                    traceback_str, call, owned, stages >>

\* line 130: download_audio returns
Download(w) ==
    /\ pc[w] = "download"
    /\ stages' = [stages EXCEPT ![w] = Append(@, "fetch")]
    /\ pc' = [pc EXCEPT ![w] = "transcribe"]
    /\ UNCHANGED << tbl, locks, txn, row, rec_id, segments, vtt, exc,
                    traceback_str, call, owned >>

\* lines 132-134: load_audio and model.transcribe return the segments
Transcribe(w) ==
    /\ pc[w] = "transcribe"
    /\ \E s \in SegmentInputs : segments' = [segments EXCEPT ![w] = Some(s)]
    /\ stages' = [stages EXCEPT ![w] = Append(@, "transform")]
    /\ pc' = [pc EXCEPT ![w] = "convert"]
    /\ UNCHANGED << tbl, locks, txn, row, rec_id, vtt, exc, traceback_str,
                    call, owned >>

\* lines 136-137, 152: vtt = convert_to_vtt(segments)
Convert(w) ==
    /\ pc[w] = "convert"
    /\ ~ConvertRaises(segments[w][1])
    /\ vtt' = [vtt EXCEPT ![w] = Some(convert_to_vtt(segments[w][1]))]
    /\ stages' = [stages EXCEPT ![w] = Append(@, "assemble")]
    /\ pc' = [pc EXCEPT ![w] = "commit_success"]
    /\ UNCHANGED << tbl, locks, txn, row, rec_id, segments, exc, traceback_str,
                    call, owned >>

\* download_audio, load_audio/transcribe or convert_to_vtt raises: line 155
StageRaise(w) ==
    /\ \/ pc[w] \in {"download", "transcribe"}
       \/ pc[w] = "convert" /\ ConvertRaises(segments[w][1])
    /\ exc' = [exc EXCEPT ![w] = Some(JobError)]
    /\ pc' = [pc EXCEPT ![w] = "except"]
    /\ UNCHANGED << tbl, locks, txn, row, rec_id, segments, vtt, traceback_str,
                    call, owned, stages >>

\* lines 155-156: traceback_str = traceback.format_exc(limit=5)
Handler(w) ==
    /\ pc[w] = "except"
    /\ traceback_str' = [traceback_str EXCEPT ![w] = Some(format_exc(exc[w][1]))]
    /\ pc' = [pc EXCEPT ![w] = "commit_failure"]
    /\ UNCHANGED << tbl, locks, txn, row, rec_id, segments, vtt, exc, call,
                    owned, stages >>

\* line 153: update_result(rec_id, 3, webvtt=vtt)
SuccessCall(w) ==
    [site |-> "try", rec_id |-> rec_id[w][1], status |-> STATUS_DONE,
     webvtt |-> vtt[w], error |-> NULL]

\* the handler committing with the success status
FailureCallAsDone(w) ==
    [site |-> "except", rec_id |-> rec_id[w][1], status |-> STATUS_DONE,
     webvtt |-> NULL, error |-> traceback_str[w]]

\* the handler committing without the diagnostic
FailureCallNoTrace(w) ==
    [site |-> "except", rec_id |-> rec_id[w][1], status |-> STATUS_FAILED,
     webvtt |-> NULL, error |-> NULL]

\* line 157: update_result(rec_id, -1, error=traceback_str)
FailureCall(w) ==
    [site |-> "except", rec_id |-> rec_id[w][1], status |-> STATUS_FAILED,
     webvtt |-> NULL, error |-> traceback_str[w]]

\* ------------------------------------------------------------------------
\* update_result
\* ------------------------------------------------------------------------
\* lines 87-95: connect, UPDATE ... WHERE id = rec_id (waits for the row lock)
UR_Execute(w) ==
    /\ pc[w] \in {"commit_success", "commit_failure"}
    /\ LET c == IF pc[w] = "commit_success" THEN SuccessCall(w) ELSE FailureCall(w)
       IN  /\ LockFree(c.rec_id, w)
           /\ locks' = LockRow(c.rec_id, w)
           /\ txn' = [txn EXCEPT ![w] = ResultWrite(c)]
           /\ call' = [call EXCEPT ![w] = Some(c)]
    /\ pc' = [pc EXCEPT ![w] = "ur_commit"]
    /\ UNCHANGED << tbl, row, rec_id, segments, vtt, exc, traceback_str, owned,
                    stages >>

\* line 87: leaving "with conn" commits the transaction
UR_Commit(w) ==
    /\ pc[w] = "ur_commit"
    /\ tbl' = Committed(w)
    /\ locks' = Released(w)
    /\ txn' = [txn EXCEPT ![w] = NULL]
    /\ owned' = [owned EXCEPT ![w] = @ \ {call[w][1].rec_id}]
    /\ pc' = [pc EXCEPT ![w] = IF call[w][1].site = "try" THEN "log_success"
                               ELSE "log_failed"]
    /\ call' = Drop(call, w)
    /\ UNCHANGED << row, rec_id, segments, vtt, exc, traceback_str, stages >>

\* the next iteration of "while True": the locals of the last one are dead
NextIteration(w) ==
    /\ pc' = [pc EXCEPT ![w] = "get_next_target"]
    /\ rec_id' = Drop(rec_id, w)
    /\ segments' = Drop(segments, w)
    /\ vtt' = Drop(vtt, w)
    /\ exc' = Drop(exc, w)
    /\ traceback_str' = Drop(traceback_str, w)
    /\ stages' = [stages EXCEPT ![w] = << >>]

\* line 154: print, next iteration
LogSuccess(w) ==
    /\ pc[w] = "log_success"
    /\ NextIteration(w)
    /\ UNCHANGED << tbl, locks, txn, row, call, owned >>

\* line 158: print, leave the except block, next iteration
LogFailed(w) ==
    /\ pc[w] = "log_failed"
    /\ NextIteration(w)
    /\ UNCHANGED << tbl, locks, txn, row, call, owned >>

\* ------------------------------------------------------------------------
\* Faults
\* ------------------------------------------------------------------------
InClaim(w) == pc[w] \in {"get_next_target", "update", "commit_claim", "commit_none"}
InUpdateResult(w) == pc[w] \in {"commit_success", "commit_failure", "ur_commit"}

\* a claim whose store error is caught and turned into "no row"
ClaimErrorAsNone == "check"

\* where an exception raised inside get_next_target lands: line 145 is outside
\* the try block, so it leaves daemon_loop
AfterClaimError == "raised"

\* where an exception raised inside update_result lands: the success call is
\* inside the try block (line 153), the failure call is in the handler (157)
AfterStoreError(w) ==
    IF pc[w] = "commit_success" \/ (pc[w] = "ur_commit" /\ call[w][1].site = "try")
    THEN "except" ELSE "raised"

\* the process ends (uncaught exception, or killed): its frames are gone and
\* the server rolls its open transaction back
ProcessEnds(w, how) ==
    /\ locks' = Released(w)
    /\ txn' = [txn EXCEPT ![w] = NULL]
    /\ pc' = [pc EXCEPT ![w] = how]
    /\ row' = Drop(row, w)
    /\ rec_id' = Drop(rec_id, w)
    /\ segments' = Drop(segments, w)
    /\ vtt' = Drop(vtt, w)
    /\ exc' = Drop(exc, w)
    /\ traceback_str' = Drop(traceback_str, w)
    /\ call' = Drop(call, w)
    /\ stages' = [stages EXCEPT ![w] = << >>]
    /\ UNCHANGED << tbl, owned >>

\* psycopg2 raises OperationalError in connect, execute or commit: the
\* transaction is rolled back and the exception leaves the function
StoreFail(w) ==
    /\ InClaim(w) \/ InUpdateResult(w)
    /\ IF InClaim(w)
       THEN ProcessEnds(w, AfterClaimError)
       ELSE IF AfterStoreError(w) = "raised"
       THEN ProcessEnds(w, "raised")
       ELSE /\ locks' = Released(w)
            /\ txn' = [txn EXCEPT ![w] = NULL]
            /\ call' = Drop(call, w)
            /\ exc' = [exc EXCEPT ![w] = Some(StoreError)]
            /\ pc' = [pc EXCEPT ![w] = "except"]
            /\ UNCHANGED << tbl, row, rec_id, segments, vtt, traceback_str,
                            owned, stages >>

\* print raises OSError (stdout closed): lines 151 and 154 are inside the try
\* block, line 158 is inside the handler
PrintFail(w) ==
    /\ pc[w] \in {"log_processing", "log_success", "log_failed"}
    /\ IF pc[w] = "log_failed"
       THEN ProcessEnds(w, "raised")
       ELSE /\ exc' = [exc EXCEPT ![w] = Some(ConsoleError)]
            /\ pc' = [pc EXCEPT ![w] = "except"]
            /\ UNCHANGED << tbl, locks, txn, row, rec_id, segments, vtt,
                            traceback_str, call, owned, stages >>

\* the worker process is killed inside a store transaction (outside one, a
\* crash changes nothing in the store: the worker just takes no further step)
Crash(w) ==
    /\ pc[w] \in {"update", "commit_claim", "commit_none", "ur_commit"}
    /\ ProcessEnds(w, "crashed")

\* ------------------------------------------------------------------------
\* Specifications
\* ------------------------------------------------------------------------
ClaimStep(w) == GNT_Select(w) \/ GNT_Update(w) \/ GNT_Commit(w) \/ GNT_NoRow(w)

JobStep(w) ==
    \/ Check(w) \/ LogProcessing(w) \/ Download(w) \/ Transcribe(w) \/ Convert(w)
    \/ StageRaise(w) \/ Handler(w) \/ UR_Execute(w) \/ UR_Commit(w)
    \/ LogSuccess(w) \/ LogFailed(w)

WorkerStep(w) == ClaimStep(w) \/ JobStep(w)

Fault(w) == StoreFail(w) \/ PrintFail(w) \/ Crash(w)

Next == \E w \in Workers : WorkerStep(w) \/ Fault(w)

\* workers running daemon_loop, with store failures, console failures and crashes
Spec == Init /\ [][Next]_vars

\* N concurrent get_next_target calls against a table with one pending row,
\* the store reachable: every worker makes one call and stops at its return
SpecClaim == InitOnePending /\ [][\E w \in Workers : ClaimStep(w)]_vars

\* convert_to_vtt applied to each input of AssemblerInputs
SpecAssemble ==
    InitAssemble /\ [][Convert(Assembler) \/ StageRaise(Assembler)]_vars

\* update_result(j, -1, error=d1) followed by update_result(j, -1, error=d2)
SpecFailTwice ==
    /\ InitFailTwice
    /\ [][UR_Execute(Committer) \/ UR_Commit(Committer) \/ FailAgain(Committer)]_vars

\* workers that do not crash and a reachable store and console, from a table
\* of pending rows
SpecPending == InitAllPending /\ [][\E w \in Workers : WorkerStep(w)]_vars

\* workers that do not crash, a reachable store and console, collaborators that
\* return or raise; each worker's sequential loop keeps running
SpecLive ==
    /\ Init
    /\ [][\E w \in Workers : WorkerStep(w)]_vars
    /\ \A w \in Workers : WF_vars(WorkerStep(w))

\* ------------------------------------------------------------------------
\* Properties
\* ------------------------------------------------------------------------
\* w holds uncommitted ownership of j: its claim of j is in flight, or it moved
\* j to processing and has not committed a result for it
Holds(w, j) == row[w] = Some(j) \/ j \in owned[w]

\* C1: at most one worker holds uncommitted ownership of a given job: no job
\* is claimed-and-not-yet-committed by two different workers at the same time.
C1_SingleOwner ==
    \A j \in JobIds : Cardinality({ w \in Workers : Holds(w, j) }) <= 1

\* a worker holds the only pending row while another worker's SELECT has
\* found nothing
C1_Witness ==
    \E w1, w2 \in Workers : \E j \in JobIds :
        /\ w1 # w2
        /\ Holds(w1, j)
        /\ tbl[j].status = STATUS_PENDING
        /\ pc[w2] = "commit_none"

AllReturned == \A w \in Workers : pc[w] = "check"

\* C2: when all N concurrent calls have returned, exactly one returned the id
\* of the pending row (which it moved to processing) and the others None.
C2_ExactlyOneClaims ==
    AllReturned =>
        /\ \A j \in JobIds : tbl[j].status # STATUS_PENDING
        /\ \E w \in Workers :
              /\ rec_id[w] # NULL
              /\ rec_id[w][1] \in owned[w]
              /\ tbl[rec_id[w][1]].status = STATUS_PROCESSING
              /\ \A v \in Workers \ {w} : rec_id[v] = NULL /\ owned[v] = {}

\* all calls returned, one of them with an id
C2_Witness == AllReturned /\ \E w \in Workers : rec_id[w] # NULL

\* C3: once a job's status is done or failed, no later worker step changes
\* its status, result_text or error_detail.
C3_TerminalIsFinal ==
    [][\A j \in JobIds : tbl[j].status \in Terminal => tbl'[j] = tbl[j]]_vars

\* C4: a worker attempts its next claim only after it has committed (done or
\* failed) every row it moved to processing, whatever the row's id.
C4_CommitBeforeNextClaim ==
    \A w \in Workers : pc[w] = "get_next_target" => owned[w] = {}

FailedRow(r) ==
    /\ r.status = STATUS_FAILED
    /\ r.stacktrace # NULL
    /\ r.stacktrace[1] # << >>
    /\ r.web_vtt = NULL

\* C5: when a stage of fetch, transform or assemble raises for a claimed job,
\* the worker goes on to its next claim (the loop does not end), and it gets
\* there only with the job committed as failed, with a non-empty error_detail
\* and a null result_text.
C5_FailureIsCommitted ==
    /\ \A w \in Workers : (pc[w] = "except") ~> (pc[w] = "get_next_target")
    /\ [][\A w \in Workers :
            (exc[w] # NULL /\ pc'[w] = "get_next_target") =>
                LET j == rec_id[w][1] IN FailedRow(tbl'[j])]_vars

\* a worker has committed the failure of the job whose stage raised
C5_Witness ==
    \E w \in Workers :
        /\ pc[w] = "log_failed"
        /\ exc[w] = Some(JobError)
        /\ FailedRow(tbl[rec_id[w][1]])

AllStages == << "fetch", "transform", "assemble" >>

\* C6: a row becomes done only by the commit of the worker that claimed it,
\* after fetch, transform and assemble completed for it in that order, and
\* the stored result_text is the document assembled from the segments the
\* transformation returned for that job.
C6_DoneAfterAllStages ==
    [][\A j \in JobIds :
         (tbl'[j].status = STATUS_DONE /\ tbl'[j] # tbl[j]) =>
            \E w \in Workers :
               /\ pc[w] = "ur_commit" /\ pc'[w] = "log_success"
               /\ rec_id[w] = Some(j)
               /\ j \in owned[w]
               /\ stages[w] = AllStages
               /\ segments[w] # NULL
               /\ tbl'[j].web_vtt = Some(convert_to_vtt(segments[w][1]))]_vars

\* a worker has committed the document of the one-segment transcription
C6_Witness ==
    \E w \in Workers :
        /\ pc[w] = "log_success"
        /\ segments[w] = Some(<< SegHiThere >>)
        /\ tbl[rec_id[w][1]].status = STATUS_DONE
        /\ tbl[rec_id[w][1]].web_vtt = Some(convert_to_vtt(<< SegHiThere >>))

Exclusive(r) ==
    /\ ~(r.web_vtt # NULL /\ r.stacktrace # NULL)
    /\ r.status = STATUS_DONE => r.web_vtt # NULL /\ r.stacktrace = NULL
    /\ r.status = STATUS_FAILED => r.stacktrace # NULL /\ r.web_vtt = NULL
    /\ r.status \in {STATUS_PENDING, STATUS_PROCESSING} =>
           r.web_vtt = NULL /\ r.stacktrace = NULL

\* C7: result_text and error_detail are mutually exclusive in every committed
\* row and in every row a transaction is about to commit: done has only the
\* result, failed only the diagnostic, pending and processing neither.
C7_ResultXorError ==
    /\ \A j \in JobIds : Exclusive(tbl[j])
    /\ \A w \in Workers : txn[w] # NULL => Exclusive(txn[w][1].row)

\* a failure commit is being written over a row that holds a result
C7_Witness ==
    \E w \in Workers :
        /\ pc[w] = "ur_commit"
        /\ txn[w][1].row.status = STATUS_FAILED
        /\ tbl[txn[w][1].id].web_vtt # NULL

\* C8: get_next_target returns an id only once the transition to processing
\* is committed, and a store failure or crash between the select and the
\* commit leaves the selected row pending, unlocked and claimable.
C8_ClaimIsAtomic ==
    /\ [](\A w \in Workers :
            (pc[w] = "check" /\ rec_id[w] # NULL) =>
                /\ tbl[rec_id[w][1]].status = STATUS_PROCESSING
                /\ txn[w] = NULL
                /\ w \notin locks[rec_id[w][1]])
    /\ [][\A w \in Workers :
            (row[w] # NULL /\ pc'[w] \in {"raised", "crashed"}) =>
                LET j == row[w][1]
                IN  /\ tbl'[j].status = STATUS_PENDING
                    /\ locks'[j] = {}
                    /\ \A v \in Workers : row'[v] # Some(j) /\ j \notin owned'[v]]_vars

\* a worker died inside its claim and every row is pending and unlocked
C8_Witness ==
    /\ \E w \in Workers : pc[w] = "crashed"
    /\ \A j \in JobIds : tbl[j].status = STATUS_PENDING /\ locks[j] = {}

\* C9: a claim never waits for a row lock held by another claim in flight (its
\* SELECT can always run: it takes an unlocked pending row or finds none), and
\* claims in flight at the same time hold distinct rows.
C9_NeverWaits ==
    /\ \A w \in Workers : pc[w] = "get_next_target" => ENABLED GNT_Select(w)
    /\ \A w1, w2 \in Workers :
          (w1 # w2 /\ row[w1] # NULL /\ row[w2] # NULL) => row[w1] # row[w2]

\* two claims in flight at the same time, each with its own row
C9_Witness ==
    \E w1, w2 \in Workers : w1 # w2 /\ row[w1] # NULL /\ row[w2] # NULL

\* C10: no get_next_target call selects, or returns the id of, a row whose
\* status is done or failed.
C10_FinishedNeverSelected ==
    [][\A w \in Workers :
         /\ (row'[w] # NULL /\ row'[w] # row[w]) =>
                tbl[row'[w][1]].status \notin Terminal
         /\ (rec_id'[w] # NULL /\ rec_id'[w] # rec_id[w]) =>
                tbl[rec_id'[w][1]].status \notin Terminal]_vars

\* a claim is in flight on one row while another row is finished
C10_Witness ==
    \E w \in Workers : \E j \in JobIds :
        /\ row[w] # NULL /\ row[w][1] # j
        /\ tbl[j].status \in Terminal

\* C11: a store failure during a claim ends the claim with the exception
\* leaving daemon_loop, never with a return value; get_next_target returns
\* None only after its SELECT ran and found no unlocked pending row.
C11_ClaimFailsLoudly ==
    [][\A w \in Workers :
         /\ (InClaim(w) /\ pc'[w] = "check") =>
                \/ pc[w] = "commit_claim" /\ rec_id'[w] # NULL
                \/ pc[w] = "commit_none" /\ row[w] = NULL /\ rec_id'[w] = NULL
         /\ (pc[w] = "get_next_target" /\ pc'[w] = "commit_none") => Candidates = {}
         /\ (InClaim(w) /\ ~InClaim(w)') => pc'[w] \in {"check", "raised", "crashed"}]_vars

\* the store failed inside a claim while a pending row was there to take: the
\* worker left daemon_loop and nothing was committed
C11_Witness ==
    \E w \in Workers :
        /\ pc[w] = "raised"
        /\ \A j \in JobIds : tbl[j].status = STATUS_PENDING /\ locks[j] = {}
        /\ \A v \in Workers : owned[v] = {}

\* C12: a store failure raised inside update_result is never handled as a
\* failure of the job being committed: the handler of daemon_loop never has
\* the store's exception in hand, and no row is committed as failed with the
\* store's exception as its diagnostic.
C12_StoreErrorPropagates ==
    /\ \A w \in Workers : exc[w] # Some(StoreError)
    /\ \A j \in JobIds : tbl[j].stacktrace # Some(format_exc(StoreError))

NoPending == \A j \in JobIds : tbl[j].status # STATUS_PENDING

\* C13: when no pending row exists, get_next_target selects nothing and
\* returns None; its steps leave every row and every lock as they were, and
\* after it returned the caller has no open transaction and no row lock.
C13_NoRowNoEffect ==
    /\ [](\A w \in Workers :
            (pc[w] = "commit_none" \/ (pc[w] = "check" /\ rec_id[w] = NULL)) =>
                /\ txn[w] = NULL
                /\ \A j \in JobIds : w \notin locks[j])
    /\ [][\A w \in Workers :
            /\ (pc[w] = "get_next_target" /\ pc'[w] \in {"update", "commit_none"}
                    /\ NoPending) =>
                   /\ pc'[w] = "commit_none" /\ row'[w] = NULL
                   /\ tbl' = tbl /\ locks' = locks /\ txn' = txn
            /\ (pc[w] = "commit_none" /\ pc'[w] = "check") =>
                   /\ rec_id'[w] = NULL
                   /\ tbl' = tbl /\ locks' = locks /\ txn' = txn]_vars

\* a call returned None from a table that holds no pending row but holds
\* processing and finished rows
C13_Witness ==
    \E w \in Workers :
        /\ pc[w] = "check" /\ rec_id[w] = NULL
        /\ NoPending
        /\ \E j \in JobIds : tbl[j].status \in Terminal
        /\ \E j \in JobIds : tbl[j].status = STATUS_PROCESSING

HoldsLock(w) == \E j \in JobIds : w \in locks[j]

\* C14: a worker inside download_audio or model.transcribe has no open
\* transaction and no row lock; a worker has a transaction or a row lock only
\* while it is inside get_next_target or inside update_result.
C14_NoLockAcrossExternalCall ==
    \A w \in Workers :
        /\ pc[w] \in {"download", "transcribe"} => txn[w] = NULL /\ ~HoldsLock(w)
        /\ (txn[w] # NULL \/ HoldsLock(w)) => pc[w] \in {"update", "commit_claim", "ur_commit"}

\* a worker is inside model.transcribe while another worker's transaction
\* holds a row lock
C14_Witness ==
    \E w, v \in Workers :
        /\ w # v
        /\ pc[w] = "transcribe"
        /\ txn[v] # NULL /\ HoldsLock(v)

\* C15: no work is lost: every pending job is eventually claimed and
\* eventually reaches done or failed.
C15_NoWorkLost ==
    \A j \in JobIds :
        (tbl[j].status = STATUS_PENDING) ~>
            (tbl[j].status \in Terminal /\ \A w \in Workers : j \notin owned[w])

\* Reading a document back: its lines are the pieces between newlines.
NewlinesOf(doc) == { i \in 1..Len(doc) : doc[i] = NL }

\* the position of the n-th newline of doc; 0 and Len(doc) + 1 bound the text
NewlineAt(doc, n) ==
    IF n = 0 THEN 0
    ELSE IF n > Cardinality(NewlinesOf(doc)) THEN Len(doc) + 1
    ELSE CHOOSE p \in NewlinesOf(doc) :
            Cardinality({ q \in NewlinesOf(doc) : q < p }) = n - 1

LineCount(doc) == Cardinality(NewlinesOf(doc)) + 1

LineOf(doc, n) == SubSeq(doc, NewlineAt(doc, n - 1) + 1, NewlineAt(doc, n) - 1)

Arrow == << SP, "-", "-", ">", SP >>

\* a cue timing line: "<time> --> <time>"
IsTiming(line) == \E p \in 1..(Len(line) - 4) : SubSeq(line, p, p + 4) = Arrow

Header == << "W", "E", "B", "V", "T", "T" >>

\* the assembler has returned the document of its input
Assembled == pc[Assembler] = "commit_success" /\ vtt[Assembler] # NULL

\* C16: the document assembled from k well-formed segments starts with the
\* header line and holds exactly k cues, numbered 1..k, the i-th with the
\* times and the text of the i-th segment; for k = 0 it is the header line
\* alone.
C16_CuesInInputOrder ==
    Assembled =>
        LET doc == vtt[Assembler][1]
            segs == segments[Assembler][1]
            k == Len(segs)
        IN  /\ LineOf(doc, 1) = Header
            /\ LineOf(doc, 2) = << >>
            /\ k = 0 => doc = Header \o << NL >>
            /\ LineCount(doc) = 2 + 4 * k
            /\ Cardinality({ n \in 1..LineCount(doc) : IsTiming(LineOf(doc, n)) }) = k
            /\ \A i \in 1..k :
                  /\ LineOf(doc, 4 * i - 1) = Decimal(i)
                  /\ LineOf(doc, 4 * i) =
                        format_time(segs[i].start) \o Arrow \o format_time(segs[i].end)
                  /\ LineOf(doc, 4 * i + 1) = ReplaceNewlines(Strip(segs[i].text[1]))
                  /\ LineOf(doc, 4 * i + 2) = << >>

\* a document of two different segments has been assembled
C16_Witness ==
    /\ Assembled
    /\ Len(segments[Assembler][1]) = 2
    /\ segments[Assembler][1][1].start # segments[Assembler][1][2].start
    /\ segments[Assembler][1][1].text # segments[Assembler][1][2].text

\* The fractional part, in ten-thousandths, of the decimal value each input
\* time is written as: 0.0, 1.2, 59.999, 59.9995, 3661.5, 360000.25.
WrittenFraction(t) ==
    CASE t = T_0_0 -> 0
      [] t = T_1_2 -> 2000
      [] t = T_59_999 -> 9990
      [] t = T_59_9995 -> 9995
      [] t = T_3661_5 -> 5000
      [] t = T_360000_25 -> 2500

\* HH:MM:SS.mmm of a seconds value: whole hours (two digits or more), minutes
\* and seconds in 0..59, milliseconds the fraction times 1000, truncated
Timestamp(t) ==
    ZeroPad(t.whole \div 3600, 2) \o <<":">> \o ZeroPad((t.whole \div 60) % 60, 2)
        \o <<":">> \o ZeroPad(t.whole % 60, 2)
        \o <<".">> \o ZeroPad(WrittenFraction(t) \div 10, 3)

\* C17: every time of an assembled cue is rendered as HH:MM:SS.mmm of its
\* seconds value, milliseconds truncated: 0.0 as 00:00:00.000, 1.2 as
\* 00:00:01.200, 59.999 as 00:00:59.999, 59.9995 as 00:00:59.999, 3661.5 as
\* 01:01:01.500.
C17_TimestampTruncates ==
    Assembled =>
        \A i \in 1..Len(segments[Assembler][1]) :
            LineOf(vtt[Assembler][1], 4 * i) =
                Timestamp(segments[Assembler][1][i].start) \o Arrow
                    \o Timestamp(segments[Assembler][1][i].end)

\* The text between the first and the last character that is not whitespace.
Inked(t) == { i \in 1..Len(t) : ~IsSpace(t[i]) }

Body(t) ==
    IF Inked(t) = {} THEN << >>
    ELSE SubSeq(t, CHOOSE i \in Inked(t) : \A j \in Inked(t) : i <= j,
                   CHOOSE i \in Inked(t) : \A j \in Inked(t) : j <= i)

\* the positions of t that start a run of newlines or hold another character
RunStarts(t) == { i \in 1..Len(t) : t[i] # NL \/ i = 1 \/ t[i - 1] # NL }

\* t with every run of newlines collapsed to one space
Collapsed(t) ==
    [n \in 1..Cardinality(RunStarts(t)) |->
        LET i == CHOOSE p \in RunStarts(t) :
                    Cardinality({ q \in RunStarts(t) : q < p }) = n - 1
        IN  IF t[i] = NL THEN SP ELSE t[i]]

\* the text line of cue i of the assembled document
CueText(i) == LineOf(vtt[Assembler][1], 4 * i + 1)

\* every cue of the assembled document takes one text line, which holds no
\* newline and neither starts nor ends with whitespace
OneLineCues ==
    /\ LineCount(vtt[Assembler][1]) = 2 + 4 * Len(segments[Assembler][1])
    /\ \A i \in 1..Len(segments[Assembler][1]) :
          /\ \A n \in 1..Len(CueText(i)) : CueText(i)[n] # NL
          /\ CueText(i) # << >> =>
                ~IsSpace(Head(CueText(i))) /\ ~IsSpace(CueText(i)[Len(CueText(i))])

\* C18, with runs collapsed: the cue text is the segment text without its leading and
\* trailing whitespace and with its embedded newlines collapsed to single
\* spaces, a run of newlines to one space; it holds no newline and the cue
\* spans no blank line.
C18_NewlinesCollapsed ==
    Assembled =>
        /\ OneLineCues
        /\ \A i \in 1..Len(segments[Assembler][1]) :
              CueText(i) = Collapsed(Body(segments[Assembler][1][i].text[1]))

\* C18, newline by newline: the cue text is the segment text without its leading and
\* trailing whitespace and with each embedded newline replaced by one space
\* (n newlines in a row give n spaces); it holds no newline and the cue spans
\* no blank line.
C18_NewlinesReplaced ==
    Assembled =>
        /\ OneLineCues
        /\ \A i \in 1..Len(segments[Assembler][1]) :
              LET body == Body(segments[Assembler][1][i].text[1])
              IN  /\ Len(CueText(i)) = Len(body)
                  /\ \A n \in 1..Len(body) :
                        CueText(i)[n] = IF body[n] = NL THEN SP ELSE body[n]

\* a cue has been assembled from a text with two newlines in a row, and one
\* from a text with newlines between spaces and whitespace at both ends
C18_Witness ==
    /\ Assembled
    /\ \E i, k \in 1..Len(segments[Assembler][1]) :
          /\ segments[Assembler][1][i].text = Some(<< "a", NL, NL, "b" >>)
          /\ segments[Assembler][1][k].text =
                Some(<< SP, "a", SP, NL, SP, "b", SP, NL >>)

\* the second failure commit has returned
FailedTwice == pc[Committer] = "log_failed" /\ stages[Committer] = << "failed" >>

\* C19: after two failure commits in sequence on the same row, with
\* diagnostics d1 then d2, the row is failed with error_detail d2 and a null
\* result_text; neither call waits or raises, and no other row changes.
C19_LastFailureWins ==
    /\ [](FailedTwice =>
             tbl[rec_id[Committer][1]] =
                 NewRow(STATUS_FAILED, NULL, traceback_str[Committer]))
    /\ [](pc[Committer] = "commit_failure" => ENABLED UR_Execute(Committer))
    /\ [](pc[Committer] \in {"commit_failure", "ur_commit", "log_failed"})
    /\ [][\A j \in JobIds : j # rec_id[Committer][1] => tbl'[j] = tbl[j]]_vars

\* two failure commits were made on a row that held a diagnostic before, the
\* second with another diagnostic than the one stored first
C19_Witness ==
    /\ FailedTwice
    /\ traceback_str[Committer] = Some(format_exc(ConsoleError))
    /\ tbl[rec_id[Committer][1]].stacktrace = Some(format_exc(ConsoleError))
    /\ \E j \in JobIds : j # rec_id[Committer][1] /\ tbl[j].status = STATUS_DONE

\* C20: each worker has at most one job that it claimed and has not yet
\* committed, it makes no claim while it has one, and the number of rows in
\* processing never exceeds the number of workers.
C20_OneJobPerWorker ==
    /\ \A w \in Workers : Cardinality(owned[w]) <= 1
    /\ \A w \in Workers : InClaim(w) => owned[w] = {}
    /\ Cardinality({ j \in JobIds : tbl[j].status = STATUS_PROCESSING }) <= NumWorkers

====
